---- MODULE Spec2Model ----
(***************************************************************************)
(* Model of pysar/plot_network.py: read_network_info() builds the network  *)
(* description (dates, pairs, drop state, per-pair coherence) on the       *)
(* option namespace `inps`, and main() plots up to four figures from it.   *)
(*                                                                         *)
(* A date is a small integer; a date12 key "<master>_<slave>" is the       *)
(* fixed-width encoding master*Sep + slave, so that str.split('_') is a    *)
(* division/remainder and the lexicographic order of the strings is the    *)
(* order of the integers.  Baseline values and display options are carried *)
(* through by the program without being examined and are not modelled; nor *)
(* is the optional <file>_date12List.txt copy of the pair list (--list),   *)
(* which nothing reads back.                                               *)
(***************************************************************************)
EXTENDS Integers, Sequences, FiniteSets, TLC

\* ---------------------------------------------------------------- bounds
NumDates == 3    \* acquisitions the source may hold
MaxPairs == 2    \* longest pair list returned by the pair accessor
MaxCoh   == 2    \* longest list returned by the coherence averager
NumCoh   == 1    \* distinct non-NaN coherence values

\* ------------------------------------------------------- representation
Sep == 10        \* the '_' separator of a date12 key, as a positional base
NaN == 0 - 1     \* the not-a-number value tested by np.isnan

Date12(m, s) == m * Sep + s
Split0(p) == p \div Sep
Split1(p) == p % Sep

\* Python's None / a list, for attributes that may hold either
None == [isNone |-> TRUE, v |-> <<>>]
List(s) == [isNone |-> FALSE, v |-> s]
\* an attribute the code has not assigned
Unset == [set |-> FALSE, v |-> <<>>]
Assigned(s) == [set |-> TRUE, v |-> s]

\* ------------------------------------------------------- list helpers
Set(seq) == {seq[i] : i \in DOMAIN seq}

RECURSIVE Sorted(_)
Sorted(S) ==
    IF S = {} THEN <<>>
    ELSE LET m == CHOOSE x \in S : \A y \in S : x <= y
         IN <<m>> \o Sorted(S \ {m})

\* list.index(x): position of the first occurrence
Index(seq, x) == CHOOSE i \in DOMAIN seq : seq[i] = x /\ \A j \in 1..(i-1) : seq[j] # x

ProperSuperset(A, B) == B \subseteq A /\ A # B
ProperSubsetSwapped(A, B) == B \subseteq A /\ A # B
ProperSubset(A, B) == A \subseteq B /\ A # B

\* ------------------------------------------- values the accessors return
Dates == 1..NumDates
AllDate12 == {Date12(m, s) : <<m, s>> \in {d \in Dates \X Dates : d[1] < d[2]}}
InjSeqs(S, n) ==
    UNION {{q \in [1..l -> S] : \A i, j \in 1..l : i # j => q[i] # q[j]} : l \in 0..n}

\* get_date_list / obj.dateList / read_baseline_file: ordered acquisition dates
DateLists == {Sorted(S) : S \in SUBSET Dates}
\* get_date12_list(file): the pair keys in ascending order, each pair formed
\* from two acquisitions of the same source
Date12Lists(dl) ==
    {Sorted(S) : S \in {T \in SUBSET {p \in AllDate12 : Split0(p) \in Set(dl)
                                                        /\ Split1(p) \in Set(dl)} :
                           Cardinality(T) <= MaxPairs}}
\* get_date12_list(dropIfgram=True): the pairs of the full list not flagged
\* as dropped, in the same order
RECURSIVE Filter(_, _)
Filter(seq, S) ==
    IF seq = <<>> THEN <<>>
    ELSE (IF Head(seq) \in S THEN <<Head(seq)>> ELSE <<>>) \o Filter(Tail(seq), S)
KeepLists(pairs) == {Filter(pairs, S) : S \in SUBSET Set(pairs)}
\* spatial_average(..., saveList=True): values and the keys they belong to
CohKeyLists == InjSeqs(AllDate12, MaxCoh)
CohValues == {NaN} \cup (1..NumCoh)
CohValueLists(n) == [1..n -> CohValues]

Exts == {".h5", ".txt"}
Kinds == {"ifgramStack", "timeseries", "other"}
FigBase == <<"BperpHistory", "CoherenceMatrix", "CoherenceHistory", "Network">>

\* ------------------------------------------------------------- state
VARIABLES
    ext,              \* extension of inps.file
    k,                \* FILE_TYPE attribute, "unset" until read
    pc,               \* next step: dates, pairs, drop, coh, plot, done, error
    err,              \* the exception that ended the run, "none" otherwise
    stages,           \* steps completed so far, in order
    dateList,         \* inps.dateList
    date12List,       \* inps.date12List
    date12List_keep,  \* inps.date12List_keep
    date12List_drop,  \* inps.date12List_drop
    dateList_keep,    \* inps.dateList_keep
    dateList_drop,    \* inps.dateList_drop
    cohValues,        \* values returned by spatial_average
    cohDate12List,    \* keys returned by spatial_average
    cohList,          \* inps.cohList
    figs,             \* figures plotted, in order
    saved             \* figure files written, in order

vars == <<ext, k, pc, err, stages, dateList, date12List,
          date12List_keep, date12List_drop, dateList_keep,
          dateList_drop, cohValues, cohDate12List, cohList, figs, saved>>

dropState == <<date12List_keep, date12List_drop, dateList_keep, dateList_drop>>
cohState == <<cohValues, cohDate12List, cohList>>
output == <<figs, saved>>

Init ==
    /\ ext \in Exts
    /\ k = "unset"
    /\ pc = "dates"
    /\ err = "none"
    /\ stages = <<>>
    /\ dateList = <<>>
    /\ date12List = <<>>
    /\ date12List_keep = Unset
    /\ date12List_drop = <<>>
    /\ dateList_keep = Unset
    /\ dateList_drop = <<>>
    /\ cohValues = <<>>
    /\ cohDate12List = <<>>
    /\ cohList = None
    /\ figs = <<>>
    /\ saved = <<>>

IsH5 == ext \in {".h5", ".he5"}
IsStackIfH5 == IsH5
IsStack == IsH5 /\ k = "ifgramStack"

\* ------------------------------------------------ read_network_info, step 1
UnsupportedFileKindIgnored ==
    /\ k' = "other"
    /\ dateList' = <<>>
    /\ pc' = "pairs"
    /\ stages' = Append(stages, "dates")
    /\ UNCHANGED err

UnsupportedFileKind ==
    /\ k' = "other"
    /\ pc' = "error"
    /\ err' = "ValueError"
    /\ UNCHANGED <<dateList, stages>>

ReadDates ==
    /\ pc = "dates"
    /\ \/ /\ IsH5
          /\ \/ /\ k' \in Kinds \ {"other"}
                /\ dateList' \in DateLists
                /\ pc' = "pairs"
                /\ stages' = Append(stages, "dates")
                /\ UNCHANGED err
             \/ UnsupportedFileKind
       \/ /\ ~IsH5
          /\ dateList' \in DateLists
          /\ pc' = "pairs"
          /\ stages' = Append(stages, "dates")
          /\ UNCHANGED <<k, err>>
    /\ UNCHANGED <<ext, date12List, dropState, cohState, output>>

\* ------------------------------------------------ read_network_info, step 2
ReadPairs ==
    /\ pc = "pairs"
    /\ date12List' \in Date12Lists(dateList)
    /\ pc' = "drop"
    /\ stages' = Append(stages, "pairs")
    /\ UNCHANGED <<ext, k, err, dateList, dropState, cohState, output>>

\* ------------------------------------------------ read_network_info, step 3
Date12ListDropAll(pairs, keep) == Sorted(Set(pairs))
Date12ListDrop(pairs, keep) == Sorted(Set(pairs) \ Set(keep))

DateListKeepMasters(keep) == Sorted({Split0(keep[i]) : i \in DOMAIN keep})
DateListKeep(keep) ==
    LET mDates == [i \in DOMAIN keep |-> Split0(keep[i])]
        sDates == [i \in DOMAIN keep |-> Split1(keep[i])]
    IN Sorted(Set(mDates \o sDates))

DateListDrop(dates, keptDates) == Sorted(Set(dates) \ Set(keptDates))

ReadDropState ==
    /\ pc = "drop"
    /\ IF IsStack
       THEN \E keep \in KeepLists(date12List) :
              /\ date12List_keep' = Assigned(keep)
              /\ date12List_drop' = Date12ListDrop(date12List, keep)
              /\ dateList_keep' = Assigned(DateListKeep(keep))
              /\ dateList_drop' = DateListDrop(dateList, DateListKeep(keep))
       ELSE /\ dateList_drop' = <<>>
            /\ date12List_drop' = <<>>
            /\ UNCHANGED <<date12List_keep, dateList_keep>>
    /\ pc' = "coh"
    /\ stages' = Append(stages, "drop")
    /\ UNCHANGED <<ext, k, err, dateList, date12List, cohState, output>>

\* ------------------------------------------------ read_network_info, step 4
AllNaN(vals) == \A i \in DOMAIN vals : vals[i] = NaN

ReindexPositional(vals, keys, pairs) ==
    [i \in DOMAIN pairs |-> vals[i]]
Reindex(vals, keys, pairs) ==
    [i \in DOMAIN pairs |-> vals[Index(keys, pairs[i])]]

\* inps.cohList after the all-NaN test
AfterNaNTest(vals) == IF AllNaN(vals) THEN None ELSE List(vals)

\* subscripting None in the list comprehension
RaisesTypeError(vals, keys, pairs) ==
    /\ ProperSuperset(Set(keys), Set(pairs))
    /\ AfterNaNTest(vals).isNone
    /\ pairs # <<>>

ResolveCoherence(vals, keys, pairs) ==
    IF ProperSuperset(Set(keys), Set(pairs))
    THEN List(Reindex(AfterNaNTest(vals).v, keys, pairs))
    ELSE IF ProperSubset(Set(keys), Set(pairs))
         THEN None
         ELSE AfterNaNTest(vals)

ReadCoherence ==
    /\ pc = "coh"
    /\ IF IsStack
       THEN \E keys \in CohKeyLists : \E vals \in CohValueLists(Len(keys)) :
              /\ cohDate12List' = keys
              /\ cohValues' = vals
              /\ IF RaisesTypeError(vals, keys, date12List)
                 THEN /\ cohList' = None
                      /\ pc' = "error"
                      /\ err' = "TypeError"
                      /\ UNCHANGED stages
                 ELSE /\ cohList' = ResolveCoherence(vals, keys, date12List)
                      /\ pc' = "plot"
                      /\ stages' = Append(stages, "coh")
                      /\ UNCHANGED err
       ELSE /\ cohList' = None
            /\ pc' = "plot"
            /\ stages' = Append(stages, "coh")
            /\ UNCHANGED <<err, cohValues, cohDate12List>>
    /\ UNCHANGED <<ext, k, dateList, date12List, dropState, output>>

\* --------------------------------------------- an accessor raises
\* read_attribute, the date/baseline readers, get_date12_list, the kept
\* pair accessor and spatial_average are called without try/except
AccessorError ==
    /\ pc \in {"dates", "pairs"} \/ (pc \in {"drop", "coh"} /\ IsStack)
    /\ pc' = "error"
    /\ err' = "AccessorError"
    /\ UNCHANGED <<ext, k, stages, dateList, date12List, dropState,
                   cohState, output>>

\* ------------------------------------------------------------- main
FiguresAll(coh) == FigBase
Figures(coh) ==
    <<FigBase[1]>>
    \o (IF ~coh.isNone THEN <<FigBase[2], FigBase[3]>> ELSE <<>>)
    \o <<FigBase[4]>>

Plot ==
    /\ pc = "plot"
    /\ figs' = Figures(cohList)
    /\ \E save_fig \in BOOLEAN :
         saved' = IF save_fig THEN figs' ELSE <<>>
    /\ pc' = "done"
    /\ stages' = Append(stages, "plot")
    /\ UNCHANGED <<ext, k, err, dateList, date12List, dropState, cohState>>

Next ==
    \/ ReadDates
    \/ ReadPairs
    \/ ReadDropState
    \/ ReadCoherence
    \/ AccessorError
    \/ Plot

Spec == Init /\ [][Next]_vars

\* ------------------------------------------------------------ properties
\* the source is an HDF5 file whose FILE_TYPE is ifgramStack
StackSource == ext # ".txt" /\ k = "ifgramStack"
Done(stage) == \E i \in DOMAIN stages : stages[i] = stage
Returned == pc \in {"plot", "done"}
StrictlyContains(A, B) == \A x \in B : x \in A /\ \E y \in A : y \notin B
\* out[i] is the averager's value for pairs[i], for every i
AlignedTo(out, pairs) ==
    /\ Len(out) = Len(pairs)
    /\ \A i \in DOMAIN pairs :
         \E j \in DOMAIN cohDate12List :
            /\ cohDate12List[j] = pairs[i]
            /\ \A l \in 1..(j-1) : cohDate12List[l] # pairs[i]
            /\ out[i] = cohValues[j]
SomeNotNaN == \E i \in DOMAIN cohValues : cohValues[i] # NaN

\* C1: once read_network_info has returned for a stack source, the coherence
\* is either None or a list of len(pairs) values whose i-th value is the
\* averager's value for pairs[i].
C1_CoherenceAbsentOrAligned ==
    (StackSource /\ Returned) =>
        (cohList.isNone \/ AlignedTo(cohList.v, date12List))

\* C2: when every averaged value is NaN the coherence step completes without
\* an exception and leaves the coherence None, whatever the relation between
\* the averager's keys and the pair list.
C2_AllNaNYieldsAbsent ==
    (StackSource /\ (Done("coh") \/ err = "TypeError")
        /\ \A i \in DOMAIN cohValues : cohValues[i] = NaN) =>
        (err = "none" /\ cohList.isNone)

\* C3: when the averager's keys are a permutation of the pair list and not
\* all values are NaN, the coherence is re-indexed to the order of the pairs.
C3_PermutationReindexed ==
    (StackSource /\ Done("coh") /\ SomeNotNaN
        /\ {cohDate12List[i] : i \in DOMAIN cohDate12List}
             = {date12List[i] : i \in DOMAIN date12List}) =>
        (~cohList.isNone /\ AlignedTo(cohList.v, date12List))

C5_SubsetYieldsAbsent ==
    [][(pc = "coh" /\ StackSource /\ err' # "AccessorError"
          /\ StrictlyContains({date12List[i] : i \in DOMAIN date12List},
                              {cohDate12List'[i] : i \in DOMAIN cohDate12List'})) =>
         (/\ cohList'.isNone
          /\ pc' = "plot"
          /\ UNCHANGED <<dateList, date12List, dropState>>)]_vars
C5_Witness ==
    /\ StackSource /\ pc = "done" /\ SomeNotNaN
    /\ Len(date12List) = 2 /\ Len(cohDate12List) = 1
    /\ cohDate12List[1] = date12List[2]
    /\ date12List_drop # <<>>
    /\ cohList.isNone

\* C6: for a stack source, once the drop state is resolved the kept and the
\* dropped pairs are disjoint and together are exactly the pairs.
C6_PairsPartitioned ==
    (StackSource /\ Done("drop")) =>
        LET kept == {date12List_keep.v[i] : i \in DOMAIN date12List_keep.v}
            dropped == {date12List_drop[i] : i \in DOMAIN date12List_drop}
        IN /\ date12List_keep.set
           /\ kept \cap dropped = {}
           /\ kept \cup dropped = {date12List[i] : i \in DOMAIN date12List}
C6_Witness ==
    /\ StackSource /\ pc = "done"
    /\ Len(date12List) = 2
    /\ date12List_keep = Assigned(<<date12List[2]>>)
    /\ date12List_drop = <<date12List[1]>>

\* C7: for a stack source, once the drop state is resolved the kept dates are
\* the master and slave dates of the kept pairs, kept and dropped dates are
\* disjoint subsets of the dates, and a date is dropped exactly when no kept
\* pair uses it.
C7_DatesPartitioned ==
    (StackSource /\ Done("drop")) =>
        LET keep == date12List_keep.v
            kd == {dateList_keep.v[i] : i \in DOMAIN dateList_keep.v}
            dd == {dateList_drop[i] : i \in DOMAIN dateList_drop}
            D == {dateList[i] : i \in DOMAIN dateList}
            Uses(p, d) == p \div Sep = d \/ p % Sep = d
        IN /\ dateList_keep.set
           /\ kd = {d \in Dates : \E i \in DOMAIN keep : Uses(keep[i], d)}
           /\ kd \subseteq D
           /\ dd \subseteq D
           /\ dd \cap kd = {}
           /\ \A d \in D : d \in dd <=> ~ \E i \in DOMAIN keep : Uses(keep[i], d)
           /\ dd = D \ kd
C7_Witness ==
    /\ StackSource /\ pc = "done"
    /\ Len(dateList) = 3
    /\ Len(date12List) = 2
    /\ Len(date12List_keep.v) = 1
    /\ Len(dateList_keep.v) = 2
    /\ Len(dateList_drop) = 1

\* C8 as stated: a source that is not an ifgramStack loads with no dropped
\* pairs, no dropped dates, the kept pairs equal to the pairs, and no coherence.
C8_NoDropConcept_Original ==
    (~StackSource /\ Returned) =>
        /\ date12List_drop = <<>>
        /\ dateList_drop = <<>>
        /\ date12List_keep = Assigned(date12List)
        /\ cohList.isNone
\* C8 amended: a source that is not an ifgramStack loads with no dropped
\* pairs, no dropped dates and no coherence; the kept-pair and kept-date
\* lists are not assigned at all.
C8_NoDropConcept ==
    (~StackSource /\ Returned) =>
        /\ date12List_drop = <<>>
        /\ dateList_drop = <<>>
        /\ ~date12List_keep.set
        /\ ~dateList_keep.set
        /\ cohList.isNone
        /\ cohDate12List = <<>>
C8_Witness ==
    /\ ext # ".txt" /\ k = "timeseries" /\ pc = "done"
    /\ Len(date12List) = 2
    /\ date12List_drop = <<>> /\ dateList_drop = <<>>
    /\ cohList.isNone

\* C9: a failed load (unsupported file kind, or an accessor raising at any
\* step) ends the run: the steps completed are a prefix of dates, pairs, drop,
\* coh that stops before the failing step, nothing is plotted or saved, and no
\* further step is ever taken.
Pipeline == <<"dates", "pairs", "drop", "coh", "plot">>
C9_FailFast ==
    /\ [](/\ Len(stages) <= Len(Pipeline)
          /\ stages = [i \in 1..Len(stages) |-> Pipeline[i]]
          /\ (k = "other" => pc = "error")
          /\ (err # "none" <=> pc = "error")
          /\ (pc = "error" => /\ figs = <<>> /\ saved = <<>>
                              /\ ~Done("coh") /\ ~Done("plot")
                              /\ (err = "ValueError" => stages = <<>>)))
    /\ [][pc # "error"]_vars
C9_Witness ==
    /\ pc = "error" /\ err = "AccessorError"
    /\ StackSource
    /\ stages = <<"dates", "pairs", "drop">>
    /\ date12List # <<>>
    /\ figs = <<>>

\* C10: a finished run has plotted the baseline history and the network, with
\* the coherence matrix and the coherence history between them exactly when the
\* coherence is not None; nothing is plotted before the load has returned.
C10_FiguresFollowCoherence ==
    /\ (pc # "done" => figs = <<>>)
    /\ (pc = "done" =>
          figs = IF cohList.isNone
                 THEN <<"BperpHistory", "Network">>
                 ELSE <<"BperpHistory", "CoherenceMatrix", "CoherenceHistory", "Network">>)
C10_Witness ==
    /\ pc = "done" /\ StackSource
    /\ SomeNotNaN /\ cohList.isNone
    /\ figs = <<"BperpHistory", "Network">>

====
